---- MODULE Spec2Model ----
(***************************************************************************)
(* Pipeline orchestration core of ai-video-editor: the State Store         *)
(* (core/state.py), the Score Ledger (core/scoring.py), the scoring worker *)
(* pools (modules/perception/*.py) and the orchestrator (run_pipeline.py). *)
(*                                                                         *)
(* Persisted files are modelled by their content: a file is missing, holds *)
(* unparseable bytes (an open(..., "w") that truncated it and has not yet  *)
(* written the new JSON), or holds a JSON document.  Timestamps            *)
(* (last_updated) are left out: no operation reads them.                   *)
(***************************************************************************)
EXTENDS Integers, Sequences, FiniteSets, TLC

(***************************************************************************)
(* Bounds                                                                  *)
(***************************************************************************)
MaxChunks == 2      \* chunk files of a clip directory: chunk_0000.mp4 ..
MaxTop == 2         \* top-level file names a user uploads: chunk_0000.mp4 ..
MaxWorkers == 2     \* processes of one ProcessPoolExecutor

(***************************************************************************)
(* Program constants                                                       *)
(***************************************************************************)
\* run_pipeline.STEPS, the stage names without their emoji prefix
STEPS ==
  << "Splitting Video", "Motion Scoring", "VAD (Voice) Scoring",
     "Face Detection Scoring", "Privacy Blur", "Semantic Tagging",
     "The Decider", "Decision Analytics", "Action Planner",
     "Action Executor", "Run Explainer", "Debug Visualization",
     "Knowledge Update", "Final Merge" >>

StepNames == {STEPS[i] : i \in 1..Len(STEPS)}

\* the user id the module-level wrappers of core/state.py are bound to
DEFAULT_USER == "default_user"

\* user ids (namespaces); "alice" stands for any id other than the default
Users == {DEFAULT_USER, "alice"}

None == "None"

(***************************************************************************)
(* Files, paths and unit ids                                               *)
(*                                                                         *)
(* A file name chunk_000n.mp4 is the number n.  A path under the           *)
(* processing directory is <<d, n>>: d = NoDir for a top-level file,       *)
(* otherwise d is the stem of the top-level file the chunk was split from. *)
(* A unit id is such a pair too (the id string is a relative path).        *)
(***************************************************************************)
NoDir == -1
ChunkIdx == 0..(MaxChunks - 1)
TopIdx == 0..(MaxTop - 1)

\* os.path.basename(path): the file name without its directory
basename(p) == <<NoDir, p[2]>>

\* os.path.relpath(path, BASE_DIR): "stem/chunk_000n.mp4"
relpath(p) == p

Empty == [x \in {} |-> 0]

MissingFile == [kind |-> "missing", data |-> Empty]
CorruptFile == [kind |-> "corrupt", data |-> Empty]
JsonFile(d) == [kind |-> "json", data |-> d]

(***************************************************************************)
(* core/state.py : StateManager                                            *)
(***************************************************************************)
\* StateManager._load: the chunks mapping of the snapshot; a missing or
\* unparseable file (or an absent Mongo document) yields {"chunks": {}}
_load(file) == IF file.kind = "json" THEN file.data ELSE Empty

\* an init_state without the early return for an existing state
init_state_saves_always(st) == TRUE

\* StateManager.init_state: TRUE when the call reaches self._save(state)
init_state_saves(st) == DOMAIN st = {}

\* StateManager.init_state: the chunks mapping it saves
init_state(st, chunks) ==
  [c \in chunks |->
     [status |-> "PENDING", step |-> "Init", message |-> "Waiting to start...",
      completed_steps |-> {}]]

\* StateManager.update_chunk_status: TRUE when the call reaches _save
update_chunk_status_saves(st, chunk_name) == chunk_name \in DOMAIN st

\* StateManager.update_chunk_status: the chunks mapping it saves
update_chunk_status(st, chunk_name, status, step, message) ==
  [st EXCEPT ![chunk_name] =
     [@ EXCEPT !.status = status,
               !.step = IF step # None THEN step ELSE @,
               !.message = IF message # None THEN message ELSE @]]

\* StateManager.get_chunk_status
get_chunk_status(st, chunk_name) ==
  IF chunk_name \in DOMAIN st THEN st[chunk_name] ELSE Empty

\* an is_step_done that looks at the completed stages only
is_step_done_steps_only(st, chunk_name, step_name) ==
  IF chunk_name \notin DOMAIN st THEN FALSE
  ELSE step_name \in st[chunk_name].completed_steps

\* StateManager.is_step_done
is_step_done(st, chunk_name, step_name) ==
  IF chunk_name \notin DOMAIN st THEN FALSE
  ELSE IF st[chunk_name].status = "COMPLETED" THEN TRUE
  ELSE step_name \in st[chunk_name].completed_steps

\* StateManager.mark_step_done: TRUE when the call reaches _save
mark_step_done_saves(st, chunk_name) == chunk_name \in DOMAIN st

\* StateManager.mark_step_done: the chunks mapping it saves
mark_step_done(st, chunk_name, step_name) ==
  [st EXCEPT ![chunk_name].completed_steps = @ \cup {step_name}]

(***************************************************************************)
(* core/scoring.py : ScoreKeeper                                           *)
(*                                                                         *)
(* Scores are in tenths: 10 is 1.0.                                        *)
(***************************************************************************)
ScoreInputs == {-5, 5, 15}

\* max(0.0, min(1.0, float(score)))
Min(a, b) == IF a < b THEN a ELSE b
\* a ledger value stored as it was passed
clamp_verbatim(score) == score

clamp(score) == IF 0 > Min(10, score) THEN 0 ELSE Min(10, score)

\* an update_score that writes a fresh ledger holding the one value
update_score_replaces(data, chunk_name, metric, score) ==
  [c \in {chunk_name} |-> [m \in {metric} |-> clamp(score)]]

\* the read-modify part of update_score: data[chunk_name][metric] = clamp
update_score(data, chunk_name, metric, score) ==
  LET old == IF chunk_name \in DOMAIN data THEN data[chunk_name] ELSE Empty
      new == [m \in DOMAIN old \cup {metric} |->
                IF m = metric THEN clamp(score) ELSE old[m]]
  IN  [c \in DOMAIN data \cup {chunk_name} |->
         IF c = chunk_name THEN new ELSE data[c]]

\* ScoreKeeper.get_score on a parsed ledger
get_score(data, chunk_name) ==
  IF chunk_name \in DOMAIN data THEN data[chunk_name] ELSE Empty

\* ScoreKeeper.get_score: json.load(f) is not inside a try
get_score_raises(file) == file.kind = "corrupt"

\* ScoreKeeper.get_score on the ledger file, when it returns
get_score_returns(file, chunk_name) ==
  IF file.kind = "json" THEN get_score(file.data, chunk_name) ELSE Empty

(***************************************************************************)
(* decider.py : Decider.decide_clips                                       *)
(*                                                                         *)
(* Scores are in tenths, weights and the keep threshold in hundredths, a   *)
(* quality score and a contribution in thousandths, an unrounded final     *)
(* score in units of 0.00001 and a recorded one in thousandths.            *)
(***************************************************************************)
\* dict.get(key, default)
dict_get(d, key, default) == IF key \in DOMAIN d THEN d[key] ELSE default

\* decider_config.get("weights", {"face": 0.4, "motion": 0.3, "speech": 0.3})
decider_weights(config) ==
  dict_get(config, "weights", [face |-> 40, motion |-> 30, speech |-> 30])

\* decider_config.get("keep_threshold", 0.65)
keep_threshold(config) == dict_get(config, "keep_threshold", 65)

\* the weighted sum of the three metrics, a missing one counting 0.0
quality_score(config, metrics) ==
  LET weights == decider_weights(config)
  IN  dict_get(weights, "face", 0) * dict_get(metrics, "face_score", 0)
      + dict_get(weights, "motion", 0) * dict_get(metrics, "motion_score", 0)
      + dict_get(weights, "speech", 0) * dict_get(metrics, "vad_score", 0)

\* semantic_tags.get(clip_id, {}).get("category", "unknown")
semantic_tag(semantic_tags, id) ==
  dict_get(dict_get(semantic_tags, id, Empty), "category", "unknown")

\* semantic_weights_cfg.get(tag, semantic_config.get("default_weight", 0.5))
semantic_weight(config, tag) ==
  dict_get(dict_get(config, "semantic_weights", Empty), tag,
           dict_get(config, "default_weight", 50))

\* final_score = quality_score * semantic_weight * (1.0 - privacy_penalty),
\* privacy_penalty = 0.0
final_score(config, metrics, tag) ==
  quality_score(config, metrics) * semantic_weight(config, tag)

\* round(final_score, 3)
round3(x) == (x + 50) \div 100

\* "keep" if final_score >= keep_threshold else "discard"
decision_enum(config, final) ==
  IF final >= keep_threshold(config) * 1000 THEN "keep" ELSE "discard"

\* f"Topic: {tag}"
topic_label(tag) ==
  CASE tag = "unknown" -> "Topic: unknown"
    [] tag = "general" -> "Topic: general"
    [] tag = "funny" -> "Topic: funny"
    [] tag = "product_related" -> "Topic: product_related"
    [] OTHER -> "Topic: low_quality"

\* the four (label, contribution) pairs, in the order of the list literal
factors(config, metrics, tag) ==
  LET weights == decider_weights(config)
      sw == semantic_weight(config, tag)
  IN  << [label |-> "Face Visibility",
          value |-> dict_get(metrics, "face_score", 0)
                      * dict_get(weights, "face", 0)],
         [label |-> "Motion",
          value |-> dict_get(metrics, "motion_score", 0)
                      * dict_get(weights, "motion", 0)],
         [label |-> "Speech",
          value |-> dict_get(metrics, "vad_score", 0)
                      * dict_get(weights, "speech", 0)],
         [label |-> topic_label(tag),
          value |-> IF sw # 100 THEN (sw - 50) * 10 ELSE 100] >>

\* factors.sort(key=lambda x: x[1], reverse=True): a stable sort, equal
\* contributions keep their order
RECURSIVE sort_desc(_)
sort_desc(fs) ==
  IF Len(fs) <= 1 THEN fs
  ELSE LET h == Head(fs)
           rest == sort_desc(Tail(fs))
           n == Cardinality({i \in 1..Len(rest) : rest[i].value > h.value})
       IN  SubSeq(rest, 1, n) \o <<h>> \o SubSeq(rest, n + 1, Len(rest))

\* the labels of factors[:3] without the test on the contribution
top_factors_unfiltered(sorted) ==
  LET top == SubSeq(sorted, 1, Min(3, Len(sorted)))
  IN  [i \in 1..Len(top) |-> top[i].label]

\* [f[0] for f in factors[:3] if f[1] > 0]
top_factors(sorted) ==
  LET positive(f) == f.value > 0
      top == SelectSeq(SubSeq(sorted, 1, Min(3, Len(sorted))), positive)
  IN  [i \in 1..Len(top) |-> top[i].label]

\* the result object of one clip
decide(config, semantic_tags, id, metrics) ==
  LET tag == semantic_tag(semantic_tags, id)
      final == final_score(config, metrics, tag)
  IN  [clip_id |-> id,
       final_score |-> round3(final),
       decision |-> decision_enum(config, final),
       confidence |-> round3(final),
       top_factors |-> top_factors(sort_desc(factors(config, metrics, tag))),
       semantic_category |-> tag,
       semantic_weight |-> semantic_weight(config, tag)]

\* whether decide_clips gets past reading the scores file
scores_readable(file) == file.kind = "json"

\* the list decide_clips builds; order is the order of all_scores.items()
decide_clips(config, all_scores, semantic_tags, order) ==
  [i \in 1..Len(order) |->
     decide(config, semantic_tags, order[i], all_scores[order[i]])]

(***************************************************************************)
(* modules/report/planner.py : ActionPlanner.plan_actions                  *)
(***************************************************************************)
\* the folder below the output_clips directory an item goes to, all kept
\* clips going to the folder of their category
destination_by_category(decision_raw, category) ==
  CASE decision_raw = "keep" -> category
    [] decision_raw = "quarantine" -> "quarantine"
    [] OTHER -> "discarded"

\* the folder below the output_clips directory an item goes to
destination(decision_raw, category) ==
  CASE decision_raw = "keep" ->
         IF category \in {"product_related", "funny", "general"}
         THEN category ELSE "selected"
    [] decision_raw = "quarantine" -> "quarantine"
    [] OTHER -> "discarded"

\* the plan item of one decision; reason is the list the string is joined
\* from and the suffix
plan_item(d) ==
  LET raw == dict_get(d, "decision", "discard")
      \* str.lower() on the decision values of the decision lists
      decision_raw == IF raw = "KEEP" THEN "keep" ELSE raw
      tf == dict_get(d, "top_factors", <<>>)
  IN  [clip_id |-> dict_get(d, "clip_id", <<NoDir, NoDir>>),
       action |-> IF decision_raw \in {"keep", "quarantine"}
                  THEN decision_raw ELSE "discard",
       destination |->
         destination(decision_raw, dict_get(d, "semantic_category", "general")),
       reason |-> [factors |-> IF tf = <<>> THEN <<"low score">> ELSE tf,
                   borderline |-> decision_raw = "quarantine"],
       score |-> dict_get(d, "confidence", 0)]

plan_actions(ds) == [i \in 1..Len(ds) |-> plan_item(ds[i])]

(***************************************************************************)
(* modules/report/executor.py : ActionExecutor.execute_plan                *)
(***************************************************************************)
NoSource == <<NoDir, NoDir>>

\* the source of a clip: processing/<user>/<clip_id> when it exists, else
\* what _find_clip_path finds, os.walk looking for a file of that name
find_source(src, id) ==
  IF id \in src THEN id
  ELSE IF id[1] = NoDir /\ \E p \in src : p[2] = id[2]
       THEN CHOOSE p \in src : p[2] = id[2]
       ELSE NoSource

\* the file name chunk_0000_chunk_0000.mp4
JoinedName == 100

\* the parts of a file or directory name that "_" separates, "chunk" and the
\* extension left out: chunk_000n.mp4 is <<n>>
name_parts(n) == IF n = JoinedName THEN <<0, 0>> ELSE <<n>>

\* clip_id.replace(os.path.sep, "_"): the parts of the directory and of the
\* file name in one file name
flat_name(id) ==
  IF id[1] = NoDir THEN name_parts(id[2])
  ELSE name_parts(id[1]) \o name_parts(id[2])

\* the clip files after a transfer that moves the source
sources_after_move(src, p) == src \ {p}

\* the clip files after shutil.copy2(src_path, dst_path)
sources_after_copy(src, p) == src

\* the entry _log_action appends, its timestamp left out
log_entry(item) ==
  [clip_id |-> item.clip_id, action |-> item.action,
   destination |-> item.destination]

\* the action log after an item whose every attempt is logged
log_after_attempt(log, item, copied) == Append(log, log_entry(item))

\* the action log after an item: _log_action follows copy2 inside the try
log_after(log, item, copied) ==
  IF copied THEN Append(log, log_entry(item)) ELSE log

\* the loop of execute_plan from item i on; fs.src are the clip files,
\* fs.out maps each destination path to the content of the file, fs.log
\* are the lines of the action log, fs.ro the folders that cannot be written
RECURSIVE execute_from(_, _, _)
execute_from(items, i, fs) ==
  IF i > Len(items) THEN fs
  ELSE LET p == find_source(fs.src, items[i].clip_id)
           dst == [folder |-> items[i].destination,
                   file |-> flat_name(items[i].clip_id)]
           \* shutil.copy2 raises when the destination folder cannot be written
           copied == items[i].destination \notin fs.ro
       IN  IF p = NoSource THEN execute_from(items, i + 1, fs)
           ELSE execute_from(items, i + 1,
                  [src |-> IF copied THEN sources_after_copy(fs.src, p)
                           ELSE fs.src,
                   out |-> IF copied
                           THEN [f \in DOMAIN fs.out \cup {dst} |->
                                   IF f = dst THEN p ELSE fs.out[f]]
                           ELSE fs.out,
                   log |-> log_after(fs.log, items[i], copied),
                   ro |-> fs.ro])

execute_plan(items, fs) == execute_from(items, 1, fs)

(***************************************************************************)
(* decision_analytics.py : DecisionAnalytics.analyze_run                   *)
(***************************************************************************)
\* raw_score = w_face * face + w_motion * motion + w_speech * speech, in
\* thousandths; final_score = raw_score
analytics_score(config, metrics) ==
  LET weights == decider_weights(config)
  IN  dict_get(weights, "face", 0) * dict_get(metrics, "face_score", 0)
      + dict_get(weights, "motion", 0) * dict_get(metrics, "motion_score", 0)
      + dict_get(weights, "speech", 0) * dict_get(metrics, "vad_score", 0)

\* is_kept = final_score >= threshold
is_kept(config, metrics) ==
  analytics_score(config, metrics) >= keep_threshold(config) * 10

\* the verdict analyze_run appends for a clip
analytics_decision(config, metrics) ==
  IF is_kept(config, metrics) THEN "keep" ELSE "discard"

\* the overview of the report analyze_run saves and returns
analyze_run(config, scores) ==
  LET kept == Cardinality({id \in DOMAIN scores : is_kept(config, scores[id])})
      total == Cardinality(DOMAIN scores)
  IN  [overview |-> [total_clips |-> total, kept |-> kept,
                     discarded |-> total - kept,
                     threshold_used |-> keep_threshold(config)]]

(***************************************************************************)
(* modules/report/explainer.py : RunExplainer.generate_narrative           *)
(***************************************************************************)
\* RunExplainer._load_json("processing/action_log.json"): the executor logs
\* to processing/<user>/action_log.json and no step writes the file of the
\* explainer, so it is absent and {} is returned
explainer_actions == [is_list |-> FALSE, lines |-> <<>>]

\* Counter([a.get("action", "unknown") for a in actions]).get(action, 0)
action_count(actions, action) ==
  IF actions.is_list
  THEN Cardinality({i \in DOMAIN actions.lines :
                      dict_get(actions.lines[i], "action", "unknown") = action})
  ELSE 0

\* the counts the narrative reports; nothing is reported when neither the
\* run summary nor the action log holds data
generate_narrative(run_stats, actions) ==
  LET total == dict_get(dict_get(run_stats, "overview", Empty),
                        "total_clips", 0)
  IN  IF run_stats = Empty /\ (~actions.is_list \/ actions.lines = <<>>)
      THEN [found |-> FALSE, total_clips |-> 0, kept_count |-> 0,
            quarantine_count |-> 0]
      ELSE [found |-> TRUE,
            total_clips |-> IF total = 0 /\ actions.is_list
                            THEN Len(actions.lines) ELSE total,
            kept_count |-> action_count(actions, "keep"),
            quarantine_count |-> action_count(actions, "quarantine")]

(***************************************************************************)
(* modules/perception/{motion,voice,faces}.py                              *)
(***************************************************************************)
ScoringStages == {STEPS[2], STEPS[3], STEPS[4]}

\* the metric key each scoring stage writes
MetricOf(stage) ==
  CASE stage = STEPS[2] -> "motion_score"
    [] stage = STEPS[3] -> "vad_score"
    [] stage = STEPS[4] -> "face_score"

\* the unit id process_file derives from the path of a chunk file
clip_id(stage, path) ==
  IF stage = STEPS[2] THEN relpath(path) ELSE basename(path)

Workers == 1..MaxWorkers

VARIABLES
  is_mongo,      \* StateManager.is_mongo: the backend of the State Store
  stateFile,     \* user id -> content of data/state_<user>.json
  scoresFile,    \* user id -> content of processing/<user>/scores.json
  user_id,       \* PIPELINE_USER_ID of the run
  stage,         \* the stage whose script is running
  tasks,         \* paths the pool has not yet handed to a worker
  wpc,           \* worker -> position in process_file
  wtask,         \* worker -> path it is processing
  wscore,        \* worker -> score it computed
  wdata,         \* worker -> ledger content it read and modified
  wstate,        \* worker -> state snapshot it loaded and modified
  lock,          \* holder of the flock on scores.json.lock, 0 when free
  crashed,       \* the stage process was killed
  markReturned,  \* history: unit ids whose mark_step_done call returned
  markSaved,     \* history: unit ids whose mark_step_done call saved
  scoreReturned, \* history: unit id -> clamped value of a returned update_score
  opc,           \* orchestrator: position in main / ingest_files / run_step
  stepIdx,       \* orchestrator: index in STEPS of the stage at hand
  runs,          \* number of main() invocations so far
  toIngest,      \* ingest_files: names of input_clips not yet visited
  active_chunks, \* ingest_files: names copied to the processing directory
  processing,    \* names of the top-level .mp4 files of processing/<user>
  stageTasks,    \* running stage: the units its script has not yet handled
  printed,       \* running stage: chunk names in output lines not yet read
  memTags,       \* tagger: its in-memory tags dictionary
  tagsFile,      \* content of processing/<user>/semantic_tags.json
  processed_count, \* tagger: processed_count
  errors,        \* number of per-unit exceptions raised so far
  call,          \* history: the last StateManager call of the client
  policy,        \* config.json as the decider and the planner read it
  srcFiles,      \* the clip files below the processing directory
  decisionsOut,  \* processing/decisions.json, as decider.py writes it
  decisions,     \* processing/<user>/decisions.json, as planner.py reads it
  plan,          \* content of action_plan.json
  outFiles,      \* the files below the output_clips directory
  actionLog,     \* the lines of processing/<user>/action_log.json
  readOnly,      \* the output folders a copy into which fails
  runSummary,    \* processing/run_summary.json
  rewrites,      \* history: later runs that rewrote decisions.json
  scrape,        \* orchestrator: its update_chunk_status call under way
  executed       \* history: execute_plan runs on the action plan at hand

vars ==
  << is_mongo, stateFile, scoresFile, user_id, stage, tasks, wpc, wtask,
     wscore, wdata, wstate, lock, crashed, markReturned, markSaved,
     scoreReturned, opc, stepIdx, runs, toIngest, active_chunks, processing,
     stageTasks, printed, memTags, tagsFile, processed_count, errors, call,
     policy, srcFiles, decisionsOut, decisions, plan, outFiles, actionLog,
     readOnly, runSummary, rewrites, scrape, executed >>

decideVars ==
  << policy, srcFiles, decisionsOut, decisions, plan, outFiles, actionLog,
     readOnly, runSummary, rewrites, scrape, executed >>

runVars ==
  << opc, stepIdx, runs, toIngest, active_chunks, processing, stageTasks,
     printed, memTags, tagsFile, processed_count, errors, call >>
poolVars ==
  << stage, tasks, wpc, wtask, wscore, wdata, wstate, lock, crashed,
     markReturned, markSaved, scoreReturned >>

persistVars == << is_mongo, stateFile, scoresFile, user_id >>
workerVars == << wpc, wtask, wscore, wdata, wstate >>
historyVars == << markReturned, markSaved, scoreReturned >>

NoTask == <<NoDir, NoDir>>

\* the store the module-level wrappers state_manager.<op> work on
WorkerStore == stateFile[DEFAULT_USER]

\* the ledger ScoreKeeper() of a worker works on
WorkerLedger == scoresFile[user_id]

NoCall == [op |-> "none", chunks |-> {}, chunk_name |-> <<NoDir, NoDir>>,
           step_name |-> None, metric |-> None, score |-> 0, user |-> None,
           result |-> <<>>, raised |-> FALSE]

\* the orchestrator is in no update_chunk_status call
NoScrape == [pc |-> "idle", chunk |-> NoTask, snap |-> Empty]

\* no decision was taken, no plan made, nothing exported
InitDecideIdle ==
  /\ policy = Empty
  /\ srcFiles = {}
  /\ decisionsOut = MissingFile
  /\ decisions = MissingFile
  /\ plan = MissingFile
  /\ outFiles = Empty
  /\ actionLog = <<>>
  /\ readOnly = {}
  /\ runSummary = MissingFile
  /\ rewrites = 0
  /\ scrape = NoScrape
  /\ executed = 0

\* the orchestrator at rest: no run was started
InitRunIdle ==
  /\ opc = "idle"
  /\ stepIdx = 1
  /\ runs = 0
  /\ toIngest = {}
  /\ active_chunks = {}
  /\ processing = {}
  /\ stageTasks = {}
  /\ printed = {}
  /\ memTags = Empty
  /\ tagsFile = MissingFile
  /\ processed_count = 0
  /\ errors = 0
  /\ call = NoCall
  /\ InitDecideIdle

(***************************************************************************)
(* One scoring stage: the pool of one clip directory                       *)
(***************************************************************************)
\* the paths the script of a scoring stage hands to one pool: motion.py
\* lists the chunk files of a directory below processing/<user>, voice.py
\* and faces.py (BASE_DIR = "processing") the .mp4 files of processing/<user>
PoolTasks(stg, tops, dir) ==
  IF stg = STEPS[2] THEN {<<dir, n>> : n \in ChunkIdx}
  ELSE {<<NoDir, n>> : n \in tops}

InitPool ==
  /\ is_mongo \in BOOLEAN
  /\ user_id \in Users
  /\ stage \in ScoringStages
  /\ \E tops \in (SUBSET TopIdx) \ {{}} : \E dir \in tops :
       \* the state ingest_files leaves: init_state on the top-level files
       /\ stateFile = [u \in Users |->
            IF u = user_id
            THEN JsonFile(init_state(Empty, {<<NoDir, n>> : n \in tops}))
            ELSE MissingFile]
       /\ tasks = PoolTasks(stage, tops, dir)
  /\ scoresFile = [u \in Users |-> MissingFile]
  /\ wpc = [w \in Workers |-> "idle"]
  /\ wtask = [w \in Workers |-> NoTask]
  /\ wscore = [w \in Workers |-> 0]
  /\ wdata = [w \in Workers |-> Empty]
  /\ wstate = [w \in Workers |-> Empty]
  /\ lock = 0
  /\ crashed = FALSE
  /\ markReturned = {}
  /\ markSaved = {}
  /\ scoreReturned = Empty
  /\ InitRunIdle

\* executor.map hands the next path to a free worker
TakeTask(w) ==
  /\ ~crashed
  /\ wpc[w] = "idle"
  /\ \E p \in tasks :
       /\ tasks' = tasks \ {p}
       /\ wtask' = [wtask EXCEPT ![w] = p]
  /\ wpc' = [wpc EXCEPT ![w] = "check"]
  /\ UNCHANGED << runVars, persistVars, decideVars, stage, wscore, wdata, wstate, lock, crashed,
                  historyVars >>

\* process_file: RESUME CHECK
ResumeCheck(w) ==
  /\ ~crashed
  /\ wpc[w] = "check"
  /\ IF is_step_done(_load(WorkerStore), clip_id(stage, wtask[w]), stage)
     THEN /\ wpc' = [wpc EXCEPT ![w] = "idle"]
          /\ wtask' = [wtask EXCEPT ![w] = NoTask]
     ELSE /\ wpc' = [wpc EXCEPT ![w] = "compute"]
          /\ UNCHANGED wtask
  /\ UNCHANGED << runVars, persistVars, decideVars, stage, tasks, wscore, wdata, wstate, lock,
                  crashed, historyVars >>

\* process_file: the perception model returns a score
Compute(w) ==
  /\ ~crashed
  /\ wpc[w] = "compute"
  /\ \E v \in ScoreInputs : wscore' = [wscore EXCEPT ![w] = v]
  /\ wpc' = [wpc EXCEPT ![w] = "lock"]
  /\ UNCHANGED << runVars, persistVars, decideVars, stage, tasks, wtask, wdata, wstate, lock,
                  crashed, historyVars >>

\* process_file: the perception model raises; except prints and returns
ComputeError(w) ==
  /\ ~crashed
  /\ wpc[w] = "compute"
  /\ wpc' = [wpc EXCEPT ![w] = "idle"]
  /\ wtask' = [wtask EXCEPT ![w] = NoTask]
  /\ UNCHANGED << runVars, persistVars, decideVars, stage, tasks, wscore, wdata, wstate, lock,
                  crashed, historyVars >>

\* a flock that excludes nobody (a shared lock, or a lock file per process)
flock_granted_shared(w) == TRUE

\* fcntl.flock(lock, LOCK_EX) returns only when no other process holds it
flock_granted(w) == lock = 0

\* update_score: take the lock
AcquireLock(w) ==
  /\ ~crashed
  /\ wpc[w] = "lock"
  /\ flock_granted(w)
  /\ lock' = w
  /\ wpc' = [wpc EXCEPT ![w] = "read"]
  /\ UNCHANGED << runVars, persistVars, decideVars, stage, tasks, wtask, wscore, wdata, wstate,
                  crashed, historyVars >>

\* update_score: read the ledger (unparseable counts as {}) and set the key
ReadLedger(w) ==
  /\ ~crashed
  /\ wpc[w] = "read"
  /\ wdata' = [wdata EXCEPT ![w] =
       update_score(_load(WorkerLedger), clip_id(stage, wtask[w]),
                    MetricOf(stage), wscore[w])]
  /\ wpc' = [wpc EXCEPT ![w] = "trunc"]
  /\ UNCHANGED << runVars, persistVars, decideVars, stage, tasks, wtask, wscore, wstate, lock,
                  crashed, historyVars >>

\* update_score: open(self.scores_file, "w") truncates the ledger
TruncLedger(w) ==
  /\ ~crashed
  /\ wpc[w] = "trunc"
  /\ scoresFile' = [scoresFile EXCEPT ![user_id] = CorruptFile]
  /\ wpc' = [wpc EXCEPT ![w] = "write"]
  /\ UNCHANGED << runVars, is_mongo, decideVars, stateFile, user_id, stage, tasks, wtask, wscore,
                  wdata, wstate, lock, crashed, historyVars >>

\* update_score: json.dump and close write the new ledger
WriteLedger(w) ==
  /\ ~crashed
  /\ wpc[w] = "write"
  /\ scoresFile' = [scoresFile EXCEPT ![user_id] = JsonFile(wdata[w])]
  /\ wdata' = [wdata EXCEPT ![w] = Empty]
  /\ wpc' = [wpc EXCEPT ![w] = "unlock"]
  /\ UNCHANGED << runVars, is_mongo, decideVars, stateFile, user_id, stage, tasks, wtask, wscore,
                  wstate, lock, crashed, historyVars >>

\* update_score: fcntl.flock(lock, LOCK_UN); the call returns
ReleaseLock(w) ==
  /\ ~crashed
  /\ wpc[w] = "unlock"
  /\ lock' = IF lock = w THEN 0 ELSE lock
  /\ scoreReturned' =
       [c \in DOMAIN scoreReturned \cup {clip_id(stage, wtask[w])} |->
          IF c = clip_id(stage, wtask[w]) THEN clamp(wscore[w])
          ELSE scoreReturned[c]]
  /\ wscore' = [wscore EXCEPT ![w] = 0]
  /\ wpc' = [wpc EXCEPT ![w] = "mark_load"]
  /\ UNCHANGED << runVars, persistVars, decideVars, stage, tasks, wtask, wdata, wstate, crashed,
                  markReturned, markSaved >>

\* mark_step_done: _load, the early return for an untracked unit, the update
MarkLoad(w) ==
  /\ ~crashed
  /\ wpc[w] = "mark_load"
  /\ LET st == _load(WorkerStore)
         c == clip_id(stage, wtask[w])
     IN  IF mark_step_done_saves(st, c)
         THEN /\ wstate' = [wstate EXCEPT ![w] = mark_step_done(st, c, stage)]
              /\ wpc' = [wpc EXCEPT ![w] = "mark_save"]
              /\ UNCHANGED << runVars, wtask, markReturned >>
         ELSE /\ wpc' = [wpc EXCEPT ![w] = "idle"]
              /\ wtask' = [wtask EXCEPT ![w] = NoTask]
              /\ markReturned' = markReturned \cup {c}
              /\ UNCHANGED wstate
  /\ UNCHANGED << runVars, persistVars, decideVars, stage, tasks, wscore, wdata, lock, crashed,
                  markSaved, scoreReturned >>

\* _save in file mode: open(self.state_file, 'w') truncates the state file
MarkTrunc(w) ==
  /\ ~crashed
  /\ ~is_mongo
  /\ wpc[w] = "mark_save"
  /\ stateFile' = [stateFile EXCEPT ![DEFAULT_USER] = CorruptFile]
  /\ wpc' = [wpc EXCEPT ![w] = "mark_write"]
  /\ UNCHANGED << runVars, is_mongo, decideVars, scoresFile, user_id, stage, tasks, wtask, wscore,
                  wdata, wstate, lock, crashed, historyVars >>

\* _save: json.dump writes the snapshot (file mode), or replace_one replaces
\* the document in one step (Mongo mode); mark_step_done returns
MarkWrite(w) ==
  /\ ~crashed
  /\ \/ wpc[w] = "mark_write"
     \/ is_mongo /\ wpc[w] = "mark_save"
  /\ stateFile' = [stateFile EXCEPT ![DEFAULT_USER] = JsonFile(wstate[w])]
  /\ markReturned' = markReturned \cup {clip_id(stage, wtask[w])}
  /\ markSaved' = markSaved \cup {clip_id(stage, wtask[w])}
  /\ wstate' = [wstate EXCEPT ![w] = Empty]
  /\ wtask' = [wtask EXCEPT ![w] = NoTask]
  /\ wpc' = [wpc EXCEPT ![w] = "idle"]
  /\ UNCHANGED << runVars, is_mongo, decideVars, scoresFile, user_id, stage, tasks, wscore, wdata,
                  lock, crashed, scoreReturned >>

\* the stage process and its pool are killed while some worker is at work
Crash ==
  /\ ~crashed
  /\ \E w \in Workers : wpc[w] # "idle"
  /\ crashed' = TRUE
  /\ lock' = 0
  /\ UNCHANGED << runVars, persistVars, decideVars, stage, tasks, workerVars, historyVars >>

NextPool ==
  \/ \E w \in Workers : TakeTask(w)
  \/ \E w \in Workers : ResumeCheck(w)
  \/ \E w \in Workers : Compute(w)
  \/ \E w \in Workers : ComputeError(w)
  \/ \E w \in Workers : AcquireLock(w)
  \/ \E w \in Workers : ReadLedger(w)
  \/ \E w \in Workers : TruncLedger(w)
  \/ \E w \in Workers : WriteLedger(w)
  \/ \E w \in Workers : ReleaseLock(w)
  \/ \E w \in Workers : MarkLoad(w)
  \/ \E w \in Workers : MarkTrunc(w)
  \/ \E w \in Workers : MarkWrite(w)
  \/ Crash

SpecPool == InitPool /\ [][NextPool]_vars

\* every path was handed out and every worker returned from process_file
PoolFinished ==
  /\ ~crashed
  /\ tasks = {}
  /\ \A w \in Workers : wpc[w] = "idle"

(***************************************************************************)
(* run_pipeline.py : the orchestrator, with the calls the stage scripts    *)
(* make on the State Store and the Score Ledger taken one call at a time   *)
(***************************************************************************)
MaxRuns == 2        \* main() invocations in one behaviour
MaxErrors == 1      \* per-unit exceptions in one behaviour

\* the scores the perception models return during a run (1.0)
RunScores == {10}

\* the store run_pipeline works on: main rebinds _global_manager to user_id
OrchStore == stateFile[user_id]

\* one StateManager call on the store of user u, from _load to _save
StoreAfter(u, saves, chunks) ==
  [stateFile EXCEPT ![u] = IF saves THEN JsonFile(chunks) ELSE @]

\* the pool workers at rest
InitPoolIdle ==
  /\ stage = STEPS[2]
  /\ tasks = {}
  /\ wpc = [w \in Workers |-> "idle"]
  /\ wtask = [w \in Workers |-> NoTask]
  /\ wscore = [w \in Workers |-> 0]
  /\ wdata = [w \in Workers |-> Empty]
  /\ wstate = [w \in Workers |-> Empty]
  /\ lock = 0
  /\ crashed = FALSE
  /\ markReturned = {}
  /\ markSaved = {}
  /\ scoreReturned = Empty

Init ==
  /\ is_mongo = FALSE
  /\ user_id \in Users
  /\ stateFile \in [Users -> {MissingFile}]
  /\ scoresFile = [u \in Users |-> MissingFile]
  /\ InitRunIdle
  /\ InitPoolIdle

\* main: a run starts; os.listdir(INPUT_CLIPS_DIR) yields the .mp4 names
Main ==
  /\ opc = "idle"
  /\ runs < MaxRuns
  /\ runs' = runs + 1
  /\ \E names \in SUBSET TopIdx : toIngest' = names
  /\ active_chunks' = {}
  /\ opc' = "ingest"
  /\ call' = NoCall
  /\ UNCHANGED << persistVars, decideVars, poolVars, stepIdx, processing, stageTasks,
                  printed, memTags, tagsFile, processed_count, errors >>

\* ingest_files, one iteration of the loop over the input files
IngestFile ==
  /\ opc = "ingest"
  /\ \E f \in toIngest : \E final_exists \in BOOLEAN :
       /\ toIngest' = toIngest \ {f}
       /\ IF final_exists
          THEN /\ stateFile' =
                    StoreAfter(user_id,
                      update_chunk_status_saves(_load(OrchStore), <<NoDir, f>>),
                      update_chunk_status(_load(OrchStore), <<NoDir, f>>,
                                          "COMPLETED", None, "Already processed"))
               /\ UNCHANGED << active_chunks, processing >>
          ELSE /\ active_chunks' = active_chunks \cup {f}
               /\ processing' = processing \cup {f}
               /\ UNCHANGED stateFile
  /\ UNCHANGED << is_mongo, decideVars, scoresFile, user_id, poolVars, opc, stepIdx, runs,
                  stageTasks, printed, memTags, tagsFile, processed_count, errors, call >>

\* ingest_files: init_state(all_chunks) and the return value
IngestInit ==
  /\ opc = "ingest"
  /\ toIngest = {}
  /\ LET all_chunks == {<<NoDir, n>> : n \in active_chunks \cup processing}
     IN  stateFile' =
           StoreAfter(user_id, init_state_saves(_load(OrchStore)),
                      init_state(_load(OrchStore), all_chunks))
  /\ IF active_chunks = {} /\ processing = {}
     THEN opc' = "idle" /\ UNCHANGED stepIdx
     ELSE opc' = "step" /\ stepIdx' = 1
  /\ UNCHANGED << is_mongo, decideVars, scoresFile, user_id, poolVars, runs, toIngest,
                  active_chunks, processing, stageTasks, printed, memTags,
                  tagsFile, processed_count, errors, call >>

\* run_step: GLOBAL STEP RESUME CHECK
all_done(name) ==
  /\ DOMAIN _load(OrchStore) # {}
  /\ \A chunk_id \in DOMAIN _load(OrchStore) :
       is_step_done(_load(OrchStore), chunk_id, name)

\* the chunk files below the processing directory
ChunkFiles == {<<d, n>> : d \in processing, n \in ChunkIdx}

\* clip_paths of the tagger: every .mp4 below the processing directory
clip_paths == ChunkFiles \cup {<<NoDir, n>> : n \in processing}

\* the units the script of stage i goes through
TasksOf(i) ==
  IF STEPS[i] = STEPS[2] THEN ChunkFiles
  ELSE IF STEPS[i] \in ScoringStages THEN {<<NoDir, n>> : n \in processing}
  ELSE IF STEPS[i] = STEPS[6]
       THEN IF scoresFile[user_id].kind = "missing" THEN {}
            ELSE DOMAIN scoresFile[user_id].data
       ELSE {}

\* run_step returns True without launching the script
RunStepSkip ==
  /\ opc = "step"
  /\ stepIdx <= Len(STEPS)
  /\ all_done(STEPS[stepIdx])
  /\ stepIdx' = stepIdx + 1
  /\ UNCHANGED << persistVars, decideVars, poolVars, opc, runs, toIngest, active_chunks,
                  processing, stageTasks, printed, memTags, tagsFile,
                  processed_count, errors, call >>

\* run_step: subprocess.Popen([sys.executable, script])
RunStepLaunch ==
  /\ opc = "step"
  /\ stepIdx <= Len(STEPS)
  /\ ~all_done(STEPS[stepIdx])
  /\ opc' = "running"
  /\ stageTasks' = TasksOf(stepIdx)
  /\ memTags' = IF tagsFile.kind = "json" THEN tagsFile.data ELSE Empty
  /\ processed_count' = 0
  /\ UNCHANGED << persistVars, decideVars, poolVars, stepIdx, runs, toIngest,
                  active_chunks, processing, printed, tagsFile, errors, call >>

\* the pools run one clip directory after the other
PoolOrder(p) ==
  \A q \in stageTasks :
    (q[1] # p[1]) => \A n \in ChunkIdx : <<q[1], n>> \in stageTasks

\* an exception of process_file that leaves the script: the run is over
AfterUnitError_propagates == "idle"

\* process_file: except Exception prints the error and returns; the pool
\* goes on with the other paths
AfterUnitError == "running"

\* process_file of a scoring stage, as one step
ScoreWorker ==
  /\ opc = "running"
  /\ STEPS[stepIdx] \in ScoringStages
  /\ \E p \in stageTasks :
       LET name == STEPS[stepIdx]
           c == clip_id(name, p)
           st == _load(WorkerStore)
           ret == [NoCall EXCEPT !.op = "process_file", !.chunk_name = c,
                                 !.step_name = name]
       IN  /\ PoolOrder(p)
           /\ stageTasks' = stageTasks \ {p}
           /\ printed' = printed \cup {p[2]}
           /\ IF is_step_done(st, c, name)
              THEN /\ call' = ret
                   /\ UNCHANGED << stateFile, scoresFile, errors, opc >>
              ELSE \/ /\ errors < MaxErrors
                      /\ errors' = errors + 1
                      /\ opc' = AfterUnitError
                      /\ call' = [ret EXCEPT !.op = "process_file_error"]
                      /\ UNCHANGED << stateFile, scoresFile >>
                   \/ \E v \in RunScores :
                        /\ call' = [ret EXCEPT !.metric = MetricOf(name),
                                                !.score = v]
                        /\ UNCHANGED << errors, opc >>
                        /\ scoresFile' = [scoresFile EXCEPT ![user_id] =
                             JsonFile(update_score(_load(@), c, MetricOf(name), v))]
                        /\ stateFile' =
                             StoreAfter(DEFAULT_USER, mark_step_done_saves(st, c),
                                        mark_step_done(st, c, name))
  /\ UNCHANGED << is_mongo, decideVars, user_id, poolVars, stepIdx, runs, toIngest,
                  active_chunks, processing, memTags, tagsFile,
                  processed_count >>

\* SemanticTagger.get_quality_score with the default weights, in hundredths
get_quality_score(metrics) ==
  LET get(m) == IF m \in DOMAIN metrics THEN metrics[m] ELSE 0
  IN  get("face_score") * 4 + get("motion_score") * 3 + get("vad_score") * 3

\* sorted(scores.keys()): the order of the id strings
SortKey(c) ==
  IF c[1] = NoDir THEN c[2] * 100 ELSE c[1] * 100 + 10 + c[2]

\* SemanticTagger.run, one iteration of the loop over sorted_clip_ids
TagClip ==
  /\ opc = "running"
  /\ STEPS[stepIdx] = STEPS[6]
  /\ \E c \in stageTasks :
       /\ \A q \in stageTasks : SortKey(c) <= SortKey(q)
       /\ stageTasks' = stageTasks \ {c}
       /\ LET metrics == get_score(_load(scoresFile[user_id]), c)
              st == _load(WorkerStore)
              low == [category |-> "low_quality"]
              tag == [category |-> "general"]
              put(t) == [x \in DOMAIN memTags \cup {c} |->
                           IF x = c THEN t ELSE memTags[x]]
          \* SemanticTagger.min_quality_threshold is 0.4
          IN  IF get_quality_score(metrics) < 40
              THEN /\ memTags' = put(low)
                   /\ UNCHANGED << stateFile, tagsFile, processed_count, printed >>
              ELSE IF c \notin clip_paths
              THEN UNCHANGED << stateFile, memTags, tagsFile, processed_count,
                                printed >>
              ELSE IF c \in DOMAIN memTags
              THEN /\ stateFile' =
                        StoreAfter(DEFAULT_USER,
                          update_chunk_status_saves(st, c),
                          update_chunk_status(st, c, "COMPLETED", STEPS[6], None))
                   /\ UNCHANGED << memTags, tagsFile, processed_count, printed >>
              ELSE /\ memTags' = put(tag)
                   /\ printed' = printed \cup {c[2]}
                   /\ processed_count' = processed_count + 1
                   /\ stateFile' =
                        StoreAfter(DEFAULT_USER, mark_step_done_saves(st, c),
                                   mark_step_done(st, c, STEPS[6]))
                   /\ IF (processed_count + 1) % 5 = 0
                      THEN tagsFile' = JsonFile(put(tag))
                      ELSE UNCHANGED tagsFile
  /\ UNCHANGED << is_mongo, decideVars, scoresFile, user_id, poolVars, opc, stepIdx, runs,
                  toIngest, active_chunks, processing, errors, call >>

\* run_step, STATE TRACKING: a line of the script names chunk_000n
Scrape ==
  /\ opc = "running"
  /\ \E n \in printed :
       /\ printed' = printed \ {n}
       /\ stateFile' =
            StoreAfter(user_id,
              update_chunk_status_saves(_load(OrchStore), <<NoDir, n>>),
              update_chunk_status(_load(OrchStore), <<NoDir, n>>, "PROCESSING",
                                  STEPS[stepIdx], "line"))
  /\ UNCHANGED << is_mongo, decideVars, scoresFile, user_id, poolVars, opc, stepIdx, runs,
                  toIngest, active_chunks, processing, stageTasks, memTags,
                  tagsFile, processed_count, errors, call >>

\* a script that exits while paths of its pool are still to be processed
pool_drained_or_not == TRUE

\* with ProcessPoolExecutor(...) as executor: the script goes on, and exits,
\* when every process_file call of the pool has returned
pool_drained == stageTasks = {}

\* the script ends with exit code 0; the tagger saves its tags at the end
StageSucceeds ==
  /\ opc = "running"
  /\ pool_drained
  /\ printed = {}
  /\ tagsFile' = IF STEPS[stepIdx] = STEPS[6] /\ scoresFile[user_id].kind # "missing"
                 THEN JsonFile(memTags) ELSE tagsFile
  /\ memTags' = Empty
  /\ processed_count' = 0
  /\ stepIdx' = stepIdx + 1
  /\ opc' = "step"
  /\ UNCHANGED << persistVars, decideVars, poolVars, runs, toIngest, active_chunks,
                  processing, stageTasks, printed, errors, call >>

\* a main that goes on with the stages after a failed run_step
AfterFailure_continues == "step"

\* main: if not success: return
AfterFailure == "idle"

\* the script ends with a non-zero exit code: run_step returns False
StageFails ==
  /\ opc = "running"
  /\ printed = {}
  /\ stageTasks' = {}
  /\ memTags' = Empty
  /\ processed_count' = 0
  /\ opc' = AfterFailure
  /\ call' = [NoCall EXCEPT !.op = "run_step_failed", !.step_name = STEPS[stepIdx]]
  /\ UNCHANGED << persistVars, decideVars, poolVars, stepIdx, runs, toIngest,
                  active_chunks, processing, printed, tagsFile, errors >>

\* main: the loop over STEPS is over
RunCompletes ==
  /\ opc = "step"
  /\ stepIdx > Len(STEPS)
  /\ opc' = "idle"
  /\ UNCHANGED << persistVars, decideVars, poolVars, stepIdx, runs, toIngest,
                  active_chunks, processing, stageTasks, printed, memTags,
                  tagsFile, processed_count, errors, call >>

\* reset_pipeline.reset: empties the data directories, deletes the state files
reset ==
  /\ opc = "idle"
  /\ stateFile' = [u \in Users |-> MissingFile]
  /\ scoresFile' = [u \in Users |-> MissingFile]
  /\ tagsFile' = MissingFile
  /\ processing' = {}
  /\ UNCHANGED << is_mongo, decideVars, user_id, poolVars, opc, stepIdx, runs, toIngest,
                  active_chunks, stageTasks, printed, memTags,
                  processed_count, errors, call >>

Next ==
  \/ Main
  \/ IngestFile
  \/ IngestInit
  \/ RunStepSkip
  \/ RunStepLaunch
  \/ ScoreWorker
  \/ TagClip
  \/ Scrape
  \/ StageSucceeds
  \/ StageFails
  \/ RunCompletes
  \/ reset

Spec == Init /\ [][Next]_vars

(***************************************************************************)
(* One worker of a scoring stage and the orchestrator reading its output:  *)
(* the update_chunk_status calls of run_step taken step by step            *)
(***************************************************************************)
InitScrape ==
  /\ is_mongo \in BOOLEAN
  /\ user_id \in Users
  /\ stage \in ScoringStages
  /\ \E tops \in (SUBSET TopIdx) \ {{}} : \E dir \in tops :
       /\ stateFile = [u \in Users |->
            IF u = user_id
            THEN JsonFile(init_state(Empty, {<<NoDir, n>> : n \in tops}))
            ELSE MissingFile]
       \* one path is left to the pool
       /\ \E t \in PoolTasks(stage, tops, dir) : tasks = {t}
  /\ scoresFile = [u \in Users |-> MissingFile]
  /\ wpc = [w \in Workers |-> "idle"]
  /\ wtask = [w \in Workers |-> NoTask]
  /\ wscore = [w \in Workers |-> 0]
  /\ wdata = [w \in Workers |-> Empty]
  /\ wstate = [w \in Workers |-> Empty]
  /\ lock = 0
  /\ crashed = FALSE
  /\ markReturned = {}
  /\ markSaved = {}
  /\ scoreReturned = Empty
  /\ InitRunIdle

\* what a step of the orchestrator's call leaves alone
ScrapeFrame ==
  UNCHANGED << runVars, is_mongo, scoresFile, user_id, poolVars, policy,
               srcFiles, decisionsOut, decisions, plan, outFiles, actionLog,
               readOnly, runSummary, rewrites, executed >>

\* run_step reads a line that names chunk_000n and calls
\* update_chunk_status(key, "PROCESSING", step=name, message=line): _load and
\* the early return for an untracked key
ScrapeLoad ==
  /\ scrape.pc = "idle"
  /\ \E n \in TopIdx :
       LET st == _load(OrchStore)
           key == <<NoDir, n>>
       IN  /\ update_chunk_status_saves(st, key)
           /\ scrape' = [pc |-> "save", chunk |-> key,
                         snap |-> update_chunk_status(st, key, "PROCESSING",
                                                      stage, "line")]
  /\ UNCHANGED stateFile
  /\ ScrapeFrame

\* _save in file mode: open(self.state_file, 'w') truncates the state file
ScrapeTrunc ==
  /\ scrape.pc = "save"
  /\ ~is_mongo
  /\ stateFile' = [stateFile EXCEPT ![user_id] = CorruptFile]
  /\ scrape' = [scrape EXCEPT !.pc = "write"]
  /\ ScrapeFrame

\* _save: json.dump writes the snapshot, or replace_one replaces the
\* document; update_chunk_status returns
ScrapeWrite ==
  /\ \/ scrape.pc = "write"
     \/ is_mongo /\ scrape.pc = "save"
  /\ stateFile' = [stateFile EXCEPT ![user_id] = JsonFile(scrape.snap)]
  /\ scrape' = NoScrape
  /\ ScrapeFrame

NextScrape ==
  \/ \E w \in Workers : TakeTask(w)
  \/ \E w \in Workers : ResumeCheck(w)
  \/ \E w \in Workers : Compute(w)
  \/ \E w \in Workers : ComputeError(w)
  \/ \E w \in Workers : AcquireLock(w)
  \/ \E w \in Workers : ReadLedger(w)
  \/ \E w \in Workers : TruncLedger(w)
  \/ \E w \in Workers : WriteLedger(w)
  \/ \E w \in Workers : ReleaseLock(w)
  \/ \E w \in Workers : MarkLoad(w)
  \/ \E w \in Workers : MarkTrunc(w)
  \/ \E w \in Workers : MarkWrite(w)
  \/ ScrapeLoad
  \/ ScrapeTrunc
  \/ ScrapeWrite

SpecScrape == InitScrape /\ [][NextScrape]_vars

(***************************************************************************)
(* core/state.py : a client calling one StateManager, call after call      *)
(***************************************************************************)
\* the unit ids the client passes: chunk_0000.mp4 and chunk_0001.mp4
ApiIds == {<<NoDir, 0>>, <<NoDir, 1>>}

\* _global_manager = StateManager("default_user")
InitStore ==
  /\ is_mongo = FALSE
  /\ user_id = DEFAULT_USER
  /\ stateFile = [u \in Users |-> MissingFile]
  /\ scoresFile = [u \in Users |-> MissingFile]
  /\ InitRunIdle
  /\ InitPoolIdle

\* StateManager(user_id).init_state(chunks)
ApiInitState ==
  /\ \E chunks \in SUBSET ApiIds :
       /\ stateFile' = StoreAfter(user_id, init_state_saves(_load(OrchStore)),
                                  init_state(_load(OrchStore), chunks))
       /\ call' = [NoCall EXCEPT !.op = "init_state", !.chunks = chunks]
  /\ UNCHANGED << is_mongo, decideVars, scoresFile, user_id, poolVars, opc, stepIdx, runs,
                  toIngest, active_chunks, processing, stageTasks, printed,
                  memTags, tagsFile, processed_count, errors >>

\* StateManager(user_id).update_chunk_status(chunk_name, status, step)
ApiUpdateChunkStatus ==
  /\ \E c \in ApiIds, status \in {"PROCESSING", "COMPLETED"}, step \in {None, STEPS[1]} :
       /\ stateFile' =
            StoreAfter(user_id, update_chunk_status_saves(_load(OrchStore), c),
                       update_chunk_status(_load(OrchStore), c, status, step, None))
       /\ call' = [NoCall EXCEPT !.op = "update_chunk_status", !.chunk_name = c]
  /\ UNCHANGED << is_mongo, decideVars, scoresFile, user_id, poolVars, opc, stepIdx, runs,
                  toIngest, active_chunks, processing, stageTasks, printed,
                  memTags, tagsFile, processed_count, errors >>

\* StateManager(user_id).mark_step_done(chunk_name, step_name); a stage is
\* marked for a unit after the stages before it
ApiMarkStepDone ==
  /\ \E c \in ApiIds, i \in 1..Len(STEPS) :
       /\ c \in DOMAIN _load(OrchStore) =>
            \A j \in 1..(i - 1) : STEPS[j] \in _load(OrchStore)[c].completed_steps
       /\ stateFile' =
            StoreAfter(user_id, mark_step_done_saves(_load(OrchStore), c),
                       mark_step_done(_load(OrchStore), c, STEPS[i]))
       /\ call' = [NoCall EXCEPT !.op = "mark_step_done", !.chunk_name = c,
                                 !.step_name = STEPS[i]]
  /\ UNCHANGED << is_mongo, decideVars, scoresFile, user_id, poolVars, opc, stepIdx, runs,
                  toIngest, active_chunks, processing, stageTasks, printed,
                  memTags, tagsFile, processed_count, errors >>

\* app.py "Clear & Start New": os.remove(state_file)
ApiClearState ==
  /\ stateFile' = [stateFile EXCEPT ![user_id] = MissingFile]
  /\ call' = [NoCall EXCEPT !.op = "clear"]
  /\ UNCHANGED << is_mongo, decideVars, scoresFile, user_id, poolVars, opc, stepIdx, runs,
                  toIngest, active_chunks, processing, stageTasks, printed,
                  memTags, tagsFile, processed_count, errors >>

NextStore ==
  \/ ApiInitState
  \/ ApiUpdateChunkStatus
  \/ ApiMarkStepDone
  \/ ApiClearState

SpecStore == InitStore /\ [][NextStore]_vars

(***************************************************************************)
(* core/scoring.py : a client calling one ScoreKeeper, call after call     *)
(***************************************************************************)
\* the metric keys the scoring stages write
Metrics == {MetricOf(s) : s \in ScoringStages}

\* ScoreKeeper(): scores.json does not exist, or a killed writer left it
\* truncated
InitLedger ==
  /\ is_mongo = FALSE
  /\ user_id = DEFAULT_USER
  /\ \E f \in {MissingFile, CorruptFile} :
       stateFile = [u \in Users |-> IF u = user_id THEN f ELSE MissingFile]
  /\ \E f \in {MissingFile, CorruptFile} :
       scoresFile = [u \in Users |-> IF u = user_id THEN f ELSE MissingFile]
  /\ InitRunIdle
  /\ InitPoolIdle

\* ScoreKeeper().update_score(chunk_name, metric, score), lock to unlock
ApiUpdateScore ==
  /\ \E c \in ApiIds, m \in Metrics, v \in ScoreInputs :
       /\ scoresFile' = [scoresFile EXCEPT ![user_id] =
                           JsonFile(update_score(_load(@), c, m, v))]
       /\ call' = [NoCall EXCEPT !.op = "update_score", !.chunk_name = c,
                                 !.metric = m, !.score = v]
  /\ UNCHANGED << is_mongo, decideVars, stateFile, user_id, poolVars, opc, stepIdx, runs,
                  toIngest, active_chunks, processing, stageTasks, printed,
                  memTags, tagsFile, processed_count, errors >>

\* ScoreKeeper().get_score(chunk_name)
ApiGetScore ==
  /\ \E c \in ApiIds :
       call' = [NoCall EXCEPT !.op = "get_score", !.chunk_name = c,
                  !.raised = get_score_raises(WorkerLedger),
                  !.result = IF get_score_raises(WorkerLedger) THEN Empty
                             ELSE get_score_returns(WorkerLedger, c)]
  /\ UNCHANGED << persistVars, decideVars, poolVars, opc, stepIdx, runs, toIngest,
                  active_chunks, processing, stageTasks, printed, memTags,
                  tagsFile, processed_count, errors >>

NextLedger ==
  \/ ApiUpdateScore
  \/ ApiGetScore

SpecLedger == InitLedger /\ [][NextLedger]_vars

(***************************************************************************)
(* Several users: the calls the runs and the resets of the users make on   *)
(* the persisted state, one call at a time                                 *)
(***************************************************************************)
\* the stage whose workers are followed: voice.py ids are file names
UserStage == STEPS[3]

InitUsers ==
  /\ is_mongo = FALSE
  /\ user_id = DEFAULT_USER
  /\ stateFile = [u \in Users |-> MissingFile]
  /\ scoresFile = [u \in Users |-> MissingFile]
  /\ InitRunIdle
  /\ InitPoolIdle

\* what a step of the users leaves alone
UsersFrame ==
  UNCHANGED << is_mongo, decideVars, poolVars, opc, stepIdx, runs, toIngest, active_chunks,
               processing, stageTasks, printed, memTags, tagsFile,
               processed_count, errors >>

\* main(user_id=u): _global_manager = StateManager(u), then ingest_files
\* calls init_state(all_chunks)
UserIngest(u) ==
  /\ \E chunks \in SUBSET ApiIds :
       /\ stateFile' = StoreAfter(u, init_state_saves(_load(stateFile[u])),
                                  init_state(_load(stateFile[u]), chunks))
       /\ call' = [NoCall EXCEPT !.op = "init_state", !.chunks = chunks,
                                 !.user = u]
  /\ user_id' = u
  /\ UNCHANGED scoresFile
  /\ UsersFrame

\* run_step of the run of u: update_chunk_status(key, "PROCESSING", step=name)
UserScrape(u) ==
  /\ \E c \in ApiIds :
       /\ stateFile' =
            StoreAfter(u, update_chunk_status_saves(_load(stateFile[u]), c),
                       update_chunk_status(_load(stateFile[u]), c, "PROCESSING",
                                           UserStage, "line"))
       /\ call' = [NoCall EXCEPT !.op = "update_chunk_status",
                                 !.chunk_name = c, !.user = u]
  /\ user_id' = u
  /\ UNCHANGED scoresFile
  /\ UsersFrame

\* process_file in a stage script launched by the run of u: the script runs
\* with PIPELINE_USER_ID = u and imports core.state anew
UserProcessFile(u) ==
  /\ \E c \in ApiIds, v \in RunScores :
       LET st == _load(stateFile[DEFAULT_USER])
       IN  /\ IF is_step_done(st, c, UserStage)
              THEN UNCHANGED << stateFile, scoresFile >>
              ELSE /\ scoresFile' = [scoresFile EXCEPT ![u] =
                         JsonFile(update_score(_load(@), c, MetricOf(UserStage), v))]
                   /\ stateFile' =
                        StoreAfter(DEFAULT_USER, mark_step_done_saves(st, c),
                                   mark_step_done(st, c, UserStage))
           /\ call' = [NoCall EXCEPT !.op = "process_file", !.chunk_name = c,
                                     !.step_name = UserStage, !.user = u]
  /\ user_id' = u
  /\ UsersFrame

\* reset_pipeline.reset, run on behalf of u
UserReset(u) ==
  /\ stateFile' = [x \in Users |-> MissingFile]
  /\ scoresFile' = [x \in Users |-> MissingFile]
  /\ call' = [NoCall EXCEPT !.op = "reset", !.user = u]
  /\ user_id' = u
  /\ UsersFrame

\* app.py "Clear & Start New" in the session of u
UserClear(u) ==
  /\ stateFile' = [stateFile EXCEPT ![u] = MissingFile]
  /\ call' = [NoCall EXCEPT !.op = "clear", !.user = u]
  /\ user_id' = u
  /\ UNCHANGED scoresFile
  /\ UsersFrame

NextUsers ==
  \E u \in Users :
    \/ UserIngest(u)
    \/ UserScrape(u)
    \/ UserProcessFile(u)
    \/ UserReset(u)
    \/ UserClear(u)

SpecUsers == InitUsers /\ [][NextUsers]_vars

(***************************************************************************)
(* Deciding, planning and exporting: decider.py, planner.py, executor.py   *)
(***************************************************************************)
MaxExecutions == 2

\* two scored units: the id motion.py writes and the id voice.py and
\* faces.py write; a third clip that no file backs
UnitA == <<0, 0>>
UnitB == <<NoDir, 0>>
UnitC == <<NoDir, 1>>

\* an uploaded clip whose name is the flattened id of UnitA
UnitD == <<NoDir, JoinedName>>

\* config.json: nothing configured
P_default == Empty

\* config.json with the weights of the code's defaults and a threshold
P_scenario ==
  [weights |-> [face |-> 40, motion |-> 30, speech |-> 30],
   keep_threshold |-> 50]

\* the policies the decider is run under
Policies ==
  { P_default, P_scenario,
    \* config.json as app.py writes it from DEFAULT_CONFIG
    [weights |-> [face |-> 10, motion |-> 20, speech |-> 70],
     keep_threshold |-> 50,
     semantic_weights |-> [product_related |-> 100, funny |-> 100,
                           general |-> 90]],
    \* config.json after the three weight sliders of app.py were set to 1.0
    [weights |-> [face |-> 100, motion |-> 100, speech |-> 100],
     keep_threshold |-> 50,
     semantic_weights |-> [product_related |-> 100, funny |-> 100,
                           general |-> 90]],
    \* config.json with a borderline threshold below the keep threshold
    [weights |-> [face |-> 40, motion |-> 30, speech |-> 30],
     keep_threshold |-> 65, borderline |-> 60,
     semantic_weights |-> [general |-> 100]],
    \* config.json with weights and a semantic weight off the round values
    [weights |-> [face |-> 49, motion |-> 49, speech |-> 0],
     keep_threshold |-> 50,
     semantic_weights |-> [general |-> 60]] }

\* the records of the ledger the decider is run on
RecordsA ==
  { [face_score |-> 10, motion_score |-> 0, vad_score |-> 10],
    [face_score |-> 10, motion_score |-> 7, vad_score |-> 0],
    [face_score |-> 10, motion_score |-> 10, vad_score |-> 10],
    [face_score |-> 7, motion_score |-> 7, vad_score |-> 7],
    [face_score |-> 0, motion_score |-> 0, vad_score |-> 0],
    [motion_score |-> 7] }

RecordsB ==
  { [face_score |-> 1, motion_score |-> 1, vad_score |-> 1],
    [vad_score |-> 10] }


\* decisions.json of the user as the planner finds it
DecisionInputs ==
  { << [clip_id |-> UnitA, final_score |-> 620, decision |-> "quarantine",
        confidence |-> 620, top_factors |-> <<"Motion">>,
        semantic_category |-> "general"],
       [clip_id |-> UnitB, decision |-> "review", confidence |-> 900,
        semantic_category |-> "funny"] >>,
     << [clip_id |-> UnitB, confidence |-> 700,
         semantic_category |-> "product_related"],
        [clip_id |-> UnitA, decision |-> "KEEP", confidence |-> 800,
         top_factors |-> <<"Speech", "Topic: funny">>,
         semantic_category |-> "funny"] >>,
     << [clip_id |-> UnitA, decision |-> "keep", confidence |-> 700,
         semantic_category |-> "general"],
        [clip_id |-> UnitC, decision |-> "keep",
         semantic_category |-> "product_related"],
        [clip_id |-> UnitB, decision |-> "keep", confidence |-> 510,
         semantic_category |-> "unknown"] >>,
     << [clip_id |-> UnitB, decision |-> "discard", confidence |-> 100,
         top_factors |-> <<>>, semantic_category |-> "low_quality"],
        [clip_id |-> UnitA, decision |-> "keep", confidence |-> 660,
         semantic_category |-> "low_quality"] >> }

InitDecide ==
  /\ is_mongo = FALSE
  /\ user_id = DEFAULT_USER
  \* ingest_files tracked the one top-level clip of the run
  /\ stateFile = [u \in Users |->
       IF u = user_id THEN JsonFile(init_state(Empty, {UnitB}))
       ELSE MissingFile]
  /\ \E f \in {MissingFile, CorruptFile} \cup
       { JsonFile(l) : l \in
           { f \in UNION {[ids -> RecordsA \cup RecordsB] :
                            ids \in SUBSET {UnitA, UnitB}} :
               /\ UnitA \in DOMAIN f => f[UnitA] \in RecordsA
               /\ UnitB \in DOMAIN f => f[UnitB] \in RecordsB } } :
       scoresFile = [u \in Users |-> IF u = user_id THEN f ELSE MissingFile]
  /\ opc = "idle"
  /\ stepIdx = 1
  /\ runs = 0
  /\ toIngest = {}
  /\ active_chunks = {}
  /\ processing = {}
  /\ stageTasks = {}
  /\ printed = {}
  /\ memTags = Empty
  \* semantic_tags.json: absent, or the category the tagger gave UnitA
  /\ tagsFile \in {MissingFile} \cup
       { JsonFile([id \in {UnitA} |-> [category |-> c]]) :
           c \in {"general", "low_quality"} }
  /\ processed_count = 0
  /\ errors = 0
  /\ call = NoCall
  /\ InitPoolIdle
  /\ policy \in Policies
  /\ srcFiles \in {{UnitA, UnitB}, {UnitA}}
  /\ decisionsOut = MissingFile
  /\ decisions = MissingFile
  /\ plan = MissingFile
  /\ outFiles = Empty
  /\ actionLog = <<>>
  /\ readOnly = {}
  /\ runSummary = MissingFile
  /\ rewrites = 0
  /\ scrape = NoScrape
  /\ executed = 0

\* what the steps of this part leave alone
DecideFrame ==
  UNCHANGED << persistVars, poolVars, opc, stepIdx, runs, toIngest,
               active_chunks, processing, stageTasks, printed, memTags,
               tagsFile, processed_count, errors, policy >>

\* Decider().decide_clips(scores_path) on the ledger of the user; the
\* decision log it also writes is the work of a module that is not part of
\* the sources
DecideClips ==
  /\ LET file == scoresFile[user_id]
         semantic_tags == IF tagsFile.kind = "json" THEN tagsFile.data
                          ELSE Empty
     IN  IF scores_readable(file)
         \* the orders the keys of the JSON object can be listed in
         THEN \E order \in
                  { o \in [1..Cardinality(DOMAIN file.data) -> DOMAIN file.data] :
                      \A i, j \in DOMAIN o : o[i] = o[j] => i = j } :
                LET ds == decide_clips(policy, file.data, semantic_tags, order)
                IN  /\ decisionsOut' = JsonFile(ds)
                    /\ call' = [NoCall EXCEPT !.op = "decide_clips",
                                              !.result = ds]
         ELSE /\ call' = [NoCall EXCEPT !.op = "decide_clips"]
              /\ UNCHANGED decisionsOut
  /\ UNCHANGED << srcFiles, decisions, plan, outFiles, actionLog, executed,
                  readOnly, runSummary, rewrites, scrape >>
  /\ DecideFrame

\* the decider stage of the run leaves decisions.json in the processing
\* directory of the user
LoadDecisions ==
  /\ decisions = MissingFile
  /\ \E ds \in DecisionInputs : decisions' = JsonFile(ds)
  /\ call' = [NoCall EXCEPT !.op = "decisions_written"]
  /\ UNCHANGED << srcFiles, decisionsOut, plan, outFiles, actionLog,
                  executed, readOnly, runSummary, rewrites, scrape >>
  /\ DecideFrame

\* planner.py as a script: plan_actions on decisions.json, the plan saved
PlanActions ==
  /\ decisions.kind = "json"
  /\ plan' = JsonFile(plan_actions(decisions.data))
  /\ executed' = IF plan' = plan THEN executed ELSE 0
  /\ call' = [NoCall EXCEPT !.op = "plan_actions",
                            !.result = plan_actions(decisions.data)]
  /\ UNCHANGED << srcFiles, decisionsOut, decisions, outFiles, actionLog,
                  readOnly, runSummary, rewrites, scrape >>
  /\ DecideFrame

\* executor.py as a script: execute_plan on action_plan.json
ExecutePlan ==
  /\ plan.kind = "json"
  /\ executed < MaxExecutions
  /\ LET fs == execute_plan(plan.data, [src |-> srcFiles, out |-> outFiles,
                                        log |-> actionLog, ro |-> readOnly])
     IN  /\ srcFiles' = fs.src
         /\ outFiles' = fs.out
         /\ actionLog' = fs.log
  /\ UNCHANGED << readOnly, runSummary, rewrites, scrape >>
  /\ executed' = executed + 1
  /\ call' = [NoCall EXCEPT !.op = "execute_plan"]
  /\ UNCHANGED << decisionsOut, decisions, plan >>
  /\ DecideFrame

\* decision_analytics.py as a script: analyze_run on the ledger of the user
AnalyzeRun ==
  /\ LET file == scoresFile[user_id]
     IN  IF scores_readable(file)
         THEN /\ runSummary' = JsonFile(analyze_run(policy, file.data))
              /\ call' = [NoCall EXCEPT !.op = "analyze_run",
                            !.result = analyze_run(policy, file.data)]
         ELSE /\ call' = [NoCall EXCEPT !.op = "analyze_run"]
              /\ UNCHANGED runSummary
  /\ UNCHANGED << srcFiles, decisionsOut, decisions, plan, outFiles,
                  actionLog, readOnly, rewrites, scrape, executed >>
  /\ DecideFrame

NextDecide ==
  \/ DecideClips
  \/ AnalyzeRun
  \/ LoadDecisions
  \/ PlanActions
  \/ ExecutePlan

SpecDecide == InitDecide /\ [][NextDecide]_vars

(***************************************************************************)
(* Exporting over several runs: the decisions change between the runs, a   *)
(* source file is missing, an output folder cannot be written              *)
(***************************************************************************)
MaxRewrites == 1

\* a decision list with two clips whose ids flatten to one file name
CollidingDecisions ==
  << [clip_id |-> UnitA, decision |-> "keep", confidence |-> 700,
      semantic_category |-> "general"],
     [clip_id |-> UnitD, decision |-> "keep", confidence |-> 800,
      semantic_category |-> "general"] >>

InitExport ==
  /\ is_mongo = FALSE
  /\ user_id = DEFAULT_USER
  /\ stateFile = [u \in Users |->
       IF u = user_id THEN JsonFile(init_state(Empty, {UnitB}))
       ELSE MissingFile]
  /\ scoresFile = [u \in Users |-> MissingFile]
  /\ opc = "idle"
  /\ stepIdx = 1
  /\ runs = 0
  /\ toIngest = {}
  /\ active_chunks = {}
  /\ processing = {}
  /\ stageTasks = {}
  /\ printed = {}
  /\ memTags = Empty
  /\ tagsFile = MissingFile
  /\ processed_count = 0
  /\ errors = 0
  /\ call = NoCall
  /\ InitPoolIdle
  /\ policy = P_default
  /\ srcFiles \in {{UnitA, UnitB, UnitD}, {UnitA}}
  /\ decisionsOut = MissingFile
  /\ decisions = MissingFile
  /\ plan = MissingFile
  /\ outFiles = Empty
  /\ actionLog = <<>>
  /\ readOnly \in {{}, {"discarded"}}
  /\ runSummary = MissingFile
  /\ rewrites = 0
  /\ scrape = NoScrape
  /\ executed = 0

\* the decider stage of a later run writes other decisions
RewriteDecisions ==
  /\ decisions.kind = "json"
  /\ rewrites < MaxRewrites
  /\ \E ds \in DecisionInputs \cup {CollidingDecisions} :
       /\ ds # decisions.data
       /\ decisions' = JsonFile(ds)
  /\ rewrites' = rewrites + 1
  /\ call' = [NoCall EXCEPT !.op = "decisions_written"]
  /\ UNCHANGED << srcFiles, decisionsOut, plan, outFiles, actionLog,
                  executed, readOnly, runSummary, scrape >>
  /\ DecideFrame

\* explainer.py as a script: generate_narrative
Explain ==
  /\ call' = [NoCall EXCEPT !.op = "generate_narrative",
                !.result = generate_narrative(
                             IF runSummary.kind = "json" THEN runSummary.data
                             ELSE Empty, explainer_actions)]
  /\ UNCHANGED << srcFiles, decisionsOut, decisions, plan, outFiles,
                  actionLog, readOnly, runSummary, rewrites, scrape, executed >>
  /\ DecideFrame

NextExport ==
  \/ LoadDecisions
  \/ RewriteDecisions
  \/ PlanActions
  \/ ExecutePlan
  \/ Explain

SpecExport == InitExport /\ [][NextExport]_vars

(***************************************************************************)
(* Properties of the worker pool (SpecPool)                                *)
(***************************************************************************)
\* C1: once mark_step_done(u, s) has returned, is_step_done(u, s) is true,
\* also on a fresh StateManager over the persisted state (is_step_done reads
\* nothing but the persisted state), for every unit id u.
C1_DoneAfterMark ==
  \A c \in markReturned : is_step_done(_load(WorkerStore), c, stage)

\* C2: when the workers of a pool have all returned from mark_step_done, each
\* for a different tracked unit, every one of these units has the stage in its
\* completed stages.
C2_NoLostCompletion ==
  PoolFinished =>
    \A c \in markReturned \cap DOMAIN _load(WorkerStore) :
      stage \in _load(WorkerStore)[c].completed_steps

\* C3: when the workers of a pool have all returned from update_score, each
\* for a different unit, the ledger holds exactly the records of these units,
\* each with the (clamped) value its worker wrote.
C3_NoLostScore ==
  PoolFinished =>
    _load(WorkerLedger) =
      [c \in DOMAIN scoreReturned |->
         [m \in {MetricOf(stage)} |-> scoreReturned[c]]]

\* C3 witness: a finished pool in which at least two workers' update_score
\* calls returned for different units
C3_Witness ==
  /\ PoolFinished
  /\ Cardinality(DOMAIN scoreReturned) >= 2

\* C4: after a crash inside a mutating State Store call, every completion
\* saved by a mark_step_done call that had returned is still reported done.
C4_CrashKeepsCompletions ==
  crashed =>
    \A c \in markSaved : is_step_done(_load(WorkerStore), c, stage)

(***************************************************************************)
(* Properties of a pipeline run (Spec)                                     *)
(***************************************************************************)
\* C5: a unit whose status is COMPLETED has every stage of STEPS in its
\* completed stages, in every reachable state of a pipeline run.
C5_CompletedHasAllStages ==
  \A u \in Users : \A c \in DOMAIN _load(stateFile[u]) :
    _load(stateFile[u])[c].status = "COMPLETED" =>
      StepNames \subseteq _load(stateFile[u])[c].completed_steps

\* C6: once a unit's status is COMPLETED, no step of a run other than the
\* reset that wipes the state changes it to another status.
C6_CompletedNeverRegresses ==
  [][~reset =>
       \A u \in Users : \A c \in DOMAIN _load(stateFile[u]) :
         _load(stateFile[u])[c].status = "COMPLETED" =>
           /\ c \in DOMAIN _load(stateFile'[u])
           /\ _load(stateFile'[u])[c].status = "COMPLETED"]_vars

\* process_file reached mark_step_done(clip_id, name) for path p: the
\* update_score it calls first has left the metric of the stage in the ledger
WorkerMarked(name, p) ==
  /\ clip_id(name, p) \in DOMAIN _load(WorkerLedger)
  /\ MetricOf(name) \in DOMAIN _load(WorkerLedger)[clip_id(name, p)]

\* C16: when run_step reports failure for a stage, main starts no further
\* stage in that run, and the failing step leaves the State Stores and the
\* Score Ledgers as they are.
C16_FailFast ==
  [][/\ call'.op = "run_step_failed" => opc' = "idle"
     /\ StageFails => (stateFile' = stateFile /\ scoresFile' = scoresFile)]_vars

\* C16 witness: a run was aborted by a failed stage that has stages after it,
\* with units tracked in the store and records in the ledger
C16_Witness ==
  /\ call.op = "run_step_failed"
  /\ opc = "idle"
  /\ stepIdx < Len(STEPS)
  /\ DOMAIN _load(OrchStore) # {}
  /\ DOMAIN _load(WorkerLedger) # {}

\* C17: a stage is started only when no path of the stage before it is left
\* to its workers and its output was read to the end, and the stage at hand
\* does not change while a stage is running.
C17_StagesInOrder ==
  [][/\ RunStepLaunch => (stageTasks = {} /\ printed = {})
     /\ (opc = "running" /\ opc' = "running") => stepIdx' = stepIdx]_vars

\* C17 witness: the third stage is running after a worker of the second
\* stage wrote its score in the same run
C17_Witness ==
  /\ opc = "running"
  /\ stepIdx = 3
  /\ call.op = "process_file"
  /\ call.step_name = STEPS[2]
  /\ call.metric # None

\* C18: a scoring stage whose workers have marked every unit of the run done
\* is not launched again, and a stage is skipped only when every tracked
\* unit has it in its completed stages.
C18_GlobalStageSkip ==
  [][/\ (RunStepLaunch /\ STEPS[stepIdx] \in ScoringStages
           /\ TasksOf(stepIdx) # {}) =>
          \E p \in TasksOf(stepIdx) : ~WorkerMarked(STEPS[stepIdx], p)
     /\ RunStepSkip =>
          \A c \in DOMAIN _load(OrchStore) :
            STEPS[stepIdx] \in _load(OrchStore)[c].completed_steps]_vars

\* C19: starting a run again keeps every recorded stage completion, and a
\* scoring worker handed a unit it had marked done for its stage calls
\* neither update_score nor mark_step_done for it.
C19_RetryDoesNotReprocess ==
  [][/\ (Main \/ IngestFile \/ IngestInit) =>
          \A u \in Users : \A c \in DOMAIN _load(stateFile[u]) :
            /\ c \in DOMAIN _load(stateFile'[u])
            /\ _load(stateFile[u])[c].completed_steps
                 \subseteq _load(stateFile'[u])[c].completed_steps
     /\ \A p \in stageTasks \ stageTasks' :
          (ScoreWorker /\ WorkerMarked(STEPS[stepIdx], p)) =>
            /\ call'.metric = None
            /\ stateFile' = stateFile
            /\ scoresFile' = scoresFile]_vars

C7_MarkCompletesLastStage ==
  [][(call'.op = "mark_step_done"
        /\ call'.chunk_name \in DOMAIN _load(OrchStore)) =>
       /\ call'.chunk_name \in DOMAIN _load(OrchStore')
       /\ call'.step_name \in
            _load(OrchStore')[call'.chunk_name].completed_steps
       /\ call'.step_name = STEPS[Len(STEPS)] =>
            _load(OrchStore')[call'.chunk_name].status = "COMPLETED"]_vars

\* C8: after init_state(ids) every id of ids is tracked, and each id that was
\* not tracked before the call has status PENDING, also when the store
\* tracked other units before the call.
C8_InitTracksAll ==
  [][call'.op = "init_state" =>
       \A c \in call'.chunks :
         /\ c \in DOMAIN _load(OrchStore')
         /\ c \notin DOMAIN _load(OrchStore) =>
              _load(OrchStore')[c].status = "PENDING"]_vars

\* C9: init_state leaves the record of every unit tracked before the call
\* as it was, and a second init_state with the same ids changes nothing.
C9_InitKeepsEntries ==
  [][call'.op = "init_state" =>
       /\ \A c \in DOMAIN _load(OrchStore) :
            /\ c \in DOMAIN _load(OrchStore')
            /\ _load(OrchStore')[c] = _load(OrchStore)[c]
       /\ (IF init_state_saves(_load(OrchStore'))
            THEN JsonFile(init_state(_load(OrchStore'), call'.chunks))
            ELSE OrchStore') = OrchStore']_vars

\* C9 witness: init_state was called with an id the store does not track,
\* on a store that tracks a unit with a completed stage
C9_Witness ==
  /\ call.op = "init_state"
  /\ \E c \in call.chunks : c \notin DOMAIN _load(OrchStore)
  /\ \E c \in DOMAIN _load(OrchStore) :
       _load(OrchStore)[c].completed_steps # {}

\* C10: for every unit and stage, is_step_done gives the same result right
\* before and right after an update_chunk_status call.
C10_StatusIsObservabilityOnly ==
  [][call'.op = "update_chunk_status" =>
       \A c \in ApiIds : \A s \in StepNames :
         is_step_done(_load(OrchStore'), c, s)
           = is_step_done(_load(OrchStore), c, s)]_vars

\* the ids a client looks up: the two it passes to the mutating calls and
\* one that is never tracked
LookupIds == ApiIds \cup {<<0, 0>>}

\* C11: is_step_done(u, s) is true exactly when u is tracked and (the status
\* of u is COMPLETED or s is in the completed stages of u); for an untracked
\* id it is false and get_chunk_status gives the empty record.
C11_IsStepDoneContract ==
  \A c \in LookupIds : \A s \in StepNames :
    /\ is_step_done(_load(OrchStore), c, s)
         = (/\ c \in DOMAIN _load(OrchStore)
            /\ \/ _load(OrchStore)[c].status = "COMPLETED"
               \/ s \in _load(OrchStore)[c].completed_steps)
    /\ c \notin DOMAIN _load(OrchStore) =>
         /\ ~is_step_done(_load(OrchStore), c, s)
         /\ get_chunk_status(_load(OrchStore), c) = Empty

\* C11 witness: a tracked COMPLETED unit that lacks a stage in its completed
\* stages, next to an id of the client that the store does not track
C11_Witness ==
  /\ \E c \in DOMAIN _load(OrchStore) :
       /\ _load(OrchStore)[c].status = "COMPLETED"
       /\ _load(OrchStore)[c].completed_steps # StepNames
  /\ \E c \in ApiIds : c \notin DOMAIN _load(OrchStore)

(***************************************************************************)
(* Properties of the ScoreKeeper calls (SpecLedger)                        *)
(***************************************************************************)
\* C12: every value in the ledger lies in [0, 1], and the value the last
\* update_score(u, m, v) stored is 0 when v < 0, 1 when v > 1, v otherwise.
C12_StoredScoresClamped ==
  /\ \A c \in DOMAIN _load(WorkerLedger) :
       \A m \in DOMAIN _load(WorkerLedger)[c] :
         _load(WorkerLedger)[c][m] \in 0..10
  /\ call.op = "update_score" =>
       /\ call.chunk_name \in DOMAIN _load(WorkerLedger)
       /\ call.metric \in DOMAIN _load(WorkerLedger)[call.chunk_name]
       /\ _load(WorkerLedger)[call.chunk_name][call.metric] =
            (IF call.score < 0 THEN 0
             ELSE IF call.score > 10 THEN 10 ELSE call.score)

\* C12 witness: update_score was called with a value above 1 on a ledger
\* that holds a value written from a negative input
C12_Witness ==
  /\ call.op = "update_score"
  /\ call.score > 10
  /\ \E c \in DOMAIN _load(WorkerLedger) :
       \E m \in DOMAIN _load(WorkerLedger)[c] : _load(WorkerLedger)[c][m] = 0

\* C13: update_score(u, m, v) changes nothing but the value of metric m of
\* unit u: every other metric of u and every record of another unit stays
\* as it was, and no unit record and no metric leaves the ledger.
C13_UpdateScoreMerges ==
  [][call'.op = "update_score" =>
       /\ DOMAIN _load(WorkerLedger') =
            DOMAIN _load(WorkerLedger) \cup {call'.chunk_name}
       /\ \A c \in DOMAIN _load(WorkerLedger) :
            /\ DOMAIN _load(WorkerLedger)[c] \subseteq DOMAIN _load(WorkerLedger')[c]
            /\ \A m \in DOMAIN _load(WorkerLedger)[c] :
                 (c # call'.chunk_name \/ m # call'.metric) =>
                   _load(WorkerLedger')[c][m] = _load(WorkerLedger)[c][m]
            /\ c # call'.chunk_name =>
                 _load(WorkerLedger')[c] = _load(WorkerLedger)[c]]_vars

\* C13 witness: update_score has written one metric of a unit that holds
\* another metric, in a ledger that holds another unit
C13_Witness ==
  /\ call.op = "update_score"
  /\ call.chunk_name \in DOMAIN _load(WorkerLedger)
  /\ DOMAIN _load(WorkerLedger)[call.chunk_name] # {call.metric}
  /\ DOMAIN _load(WorkerLedger) # {call.chunk_name}

\* C21: with an unreadable state file is_step_done is false and
\* get_chunk_status gives the empty record; with an unreadable ledger file
\* get_score returns the empty mapping without raising, and update_score
\* succeeds.
C21_CorruptIsEmpty ==
  /\ OrchStore.kind = "corrupt" =>
       \A c \in LookupIds : \A s \in StepNames :
         /\ ~is_step_done(_load(OrchStore), c, s)
         /\ get_chunk_status(_load(OrchStore), c) = Empty
  /\ (call.op = "get_score" /\ WorkerLedger.kind = "corrupt") =>
       (~call.raised /\ call.result = Empty)
  /\ call.op = "update_score" =>
       (WorkerLedger.kind = "json"
          /\ call.chunk_name \in DOMAIN _load(WorkerLedger))

(***************************************************************************)
(* Properties of several users (SpecUsers)                                 *)
(***************************************************************************)
\* C14: a step performed for user A leaves the State Store of every other
\* user as it was, and the completion a worker of A's run writes for a unit
\* that A's store tracks is in A's store afterwards.
C14_NamespacesIsolated ==
  [][/\ \A b \in Users : b # call'.user => stateFile'[b] = stateFile[b]
     /\ (call'.op = "process_file"
           /\ call'.chunk_name \in DOMAIN _load(stateFile[call'.user])) =>
          is_step_done(_load(stateFile'[call'.user]), call'.chunk_name,
                       call'.step_name)]_vars

\* C15: right after a reset requested for a user, the State Store of the
\* user tracks no unit and the Score Ledger of the user holds no record.
C15_ResetWipesStoreAndLedger ==
  call.op \in {"reset", "clear"} =>
    /\ DOMAIN _load(stateFile[call.user]) = {}
    /\ DOMAIN _load(scoresFile[call.user]) = {}

(***************************************************************************)
(* Properties of deciding, planning and exporting (SpecDecide)             *)
(***************************************************************************)
\* the Decisions the last decide_clips call returned
Decided ==
  IF call.op = "decide_clips"
  THEN {call.result[i] : i \in DOMAIN call.result} ELSE {}

\* the ledger record the decider read for a unit
MetricsOf(id) == scoresFile[user_id].data[id]

\* C22: when a unit has no semantic label the Decision Engine uses
\* semanticWeight = 1.0, so finalScore equals the weighted quality sum; with
\* weights 0.4/0.3/0.3, keepThreshold 0.5 and scores face 1.0, motion 0.0,
\* speech 1.0 the unit gets finalScore 0.7 and decision keep.
C22_NeutralWithoutLabel ==
  \A d \in Decided :
    ~(tagsFile.kind = "json" /\ d.clip_id \in DOMAIN tagsFile.data) =>
      /\ d.semantic_weight = 100
      /\ d.final_score = quality_score(policy, MetricsOf(d.clip_id))
      /\ ( /\ policy = P_scenario
           /\ MetricsOf(d.clip_id) =
                [face_score |-> 10, motion_score |-> 0, vad_score |-> 10] )
         => (d.final_score = 700 /\ d.decision = "keep")

\* C23: for every policy and every ledger content the finalScore of every
\* Decision lies in [0,1].
C23_FinalScoreInUnitInterval ==
  \A d \in Decided : d.final_score >= 0 /\ d.final_score <= 1000

\* C24: the decision surface is three-way: a unit whose finalScore is below
\* keepThreshold but at or above the borderline threshold receives
\* quarantine, and only units below the band receive discard.
C24_ThreeWayDecision ==
  \A d \in Decided :
    d.final_score < keep_threshold(policy) * 10 =>
      IF d.final_score >= dict_get(policy, "borderline", 60) * 10
      THEN d.decision = "quarantine"
      ELSE d.decision = "discard"

\* C25: for every Decision, decision is keep exactly when the finalScore
\* recorded in it is greater than or equal to keepThreshold, and discard when
\* it is lower (scores 0.1/0.1/0.1 under weights 0.4/0.3/0.3 and threshold
\* 0.5 give discard).
C25_DecisionMatchesRecordedScore ==
  \A d \in Decided :
    /\ d.decision = "keep" <=> d.final_score >= keep_threshold(policy) * 10
    /\ d.decision = "discard" <=> d.final_score < keep_threshold(policy) * 10
    /\ ( /\ policy = P_scenario
         /\ MetricsOf(d.clip_id) =
              [face_score |-> 1, motion_score |-> 1, vad_score |-> 1] )
       => d.decision = "discard"

\* C26: missing metrics count as 0 and never cause an error: every unit of
\* the run, also one no metric was ever recorded for, receives a Decision,
\* and a unit without recorded metrics gets finalScore 0 and decision discard
\* under the default policy.
C26_EveryUnitDecided ==
  call.op = "decide_clips" =>
    /\ ~call.raised
    /\ \A u \in DOMAIN _load(stateFile[user_id]) : \E d \in Decided : d.clip_id = u
    /\ \A d \in Decided :
         (policy = P_default /\ quality_score(policy, MetricsOf(d.clip_id)) = 0)
           => (d.final_score = 0 /\ d.decision = "discard")

\* the contribution of the term a label of topFactors stands for
Term(d, label) ==
  LET w == decider_weights(policy)
      m == MetricsOf(d.clip_id)
  IN  CASE label = "Face Visibility" ->
             dict_get(w, "face", 0) * dict_get(m, "face_score", 0)
        [] label = "Motion" ->
             dict_get(w, "motion", 0) * dict_get(m, "motion_score", 0)
        [] label = "Speech" ->
             dict_get(w, "speech", 0) * dict_get(m, "vad_score", 0)
        [] OTHER ->
             IF d.semantic_weight # 100 THEN (d.semantic_weight - 50) * 10
             ELSE 100

\* the labels of the four terms of a Decision
TermLabels(d) ==
  {"Face Visibility", "Motion", "Speech", topic_label(d.semantic_category)}

\* C28: topFactors of every Decision has at most 3 labels, only terms whose
\* contribution is strictly positive, in non-increasing order of
\* contribution; it is drawn from the three metric terms and the semantic
\* term and is the 3 largest positive terms among them.
C28_TopFactors ==
  \A d \in Decided :
    LET tf == d.top_factors
    IN  /\ Len(tf) <= 3
        /\ \A i \in 1..Len(tf) : tf[i] \in TermLabels(d) /\ Term(d, tf[i]) > 0
        /\ \A i, j \in 1..Len(tf) :
             /\ i < j => Term(d, tf[i]) >= Term(d, tf[j])
             /\ tf[i] = tf[j] => i = j
        /\ \A l \in TermLabels(d) :
             (Term(d, l) > 0 /\ \A i \in 1..Len(tf) : tf[i] # l) =>
               /\ Len(tf) = 3
               /\ \A i \in 1..Len(tf) : Term(d, tf[i]) >= Term(d, l)

\* a Decision with four positive terms was cut to three, and one with a
\* term of no contribution lost it
C28_Witness ==
  /\ \E d \in Decided :
       Len(d.top_factors) = 3 /\ \A l \in TermLabels(d) : Term(d, l) > 0
  /\ \E d \in Decided :
       Len(d.top_factors) < 3 /\ \E l \in TermLabels(d) : Term(d, l) = 0

\* C29: plan_actions maps each Decision to exactly one plan item, in the
\* same order and with the same unit id: keep goes to the folder of the
\* unit's category when it is product_related, funny or general and to
\* selected otherwise, quarantine to quarantine, discard and any unrecognized
\* or missing decision value to discarded; every action is keep, discard or
\* quarantine.
C29_PlanMapsDecisions ==
  call.op = "plan_actions" =>
    /\ plan.kind = "json"
    /\ Len(plan.data) = Len(decisions.data)
    /\ \A i \in 1..Len(decisions.data) :
         LET d == decisions.data[i]
             item == plan.data[i]
             given == "decision" \in DOMAIN d
         IN  /\ item.clip_id = d.clip_id
             /\ item.action \in {"keep", "discard", "quarantine"}
             /\ IF given /\ d.decision \in {"keep", "KEEP"}
                THEN /\ item.action = "keep"
                     /\ item.destination =
                          IF d.semantic_category
                               \in {"product_related", "funny", "general"}
                          THEN d.semantic_category ELSE "selected"
                ELSE IF given /\ d.decision = "quarantine"
                THEN item.action = "quarantine"
                     /\ item.destination = "quarantine"
                ELSE item.action = "discard"
                     /\ item.destination = "discarded"

\* a plan was made of a list with a kept unit of an unknown category, a
\* known one and a unit that is not kept
C29_Witness ==
  /\ call.op = "plan_actions"
  /\ \E i, j, k \in 1..Len(plan.data) :
       /\ plan.data[i].destination = "selected"
       /\ plan.data[j].destination \in {"product_related", "funny", "general"}
       /\ plan.data[k].action = "keep"
  /\ \E ds \in DecisionInputs : \E i \in 1..Len(ds) :
       "decision" \notin DOMAIN ds[i]

\* C30: running plan_actions then execute_plan twice on an unchanged
\* decision list with unchanged source files leaves the same destination
\* files as running them once, none duplicated and none lost, and neither
\* run removes or moves a source file of the processing directory.
C30_ExportIdempotent ==
  [][ExecutePlan =>
       /\ srcFiles' = srcFiles
       /\ executed >= 1 => outFiles' = outFiles
       /\ \A f \in DOMAIN outFiles : f \in DOMAIN outFiles']_vars

\* the plan at hand was executed twice and exported files
C30_Witness ==
  /\ call.op = "execute_plan"
  /\ executed = 2
  /\ Cardinality(DOMAIN outFiles) >= 2
  /\ Len(actionLog) > Cardinality(DOMAIN outFiles)

(***************************************************************************)
(* Properties of exporting over several runs (SpecExport)                  *)
(***************************************************************************)
\* a file of the processing directory backs the clip
HasSource(id) ==
  id \in srcFiles \/ (id[1] = NoDir /\ \E p \in srcFiles : p[2] = id[2])

\* the copy of a plan item goes through
Copied(item) == HasSource(item.clip_id) /\ item.destination \notin readOnly

\* the entry the audit log holds for a plan item
EntryOf(item) ==
  [clip_id |-> item.clip_id, action |-> item.action,
   destination |-> item.destination]

C32_MaterializationFollowsPlan ==
  call.op = "execute_plan" =>
    \A i \in 1..Len(plan.data) :
      LET item == plan.data[i]
      IN  Copied(item) =>
            /\ [folder |-> item.destination, file |-> flat_name(item.clip_id)]
                 \in DOMAIN outFiles
            /\ \A f \in DOMAIN outFiles :
                 f.file = flat_name(item.clip_id) => f.folder = item.destination

\* the units of the plan with an action
UnitsWith(action) ==
  {plan.data[i].clip_id : i \in {k \in 1..Len(plan.data) :
                                   plan.data[k].action = action}}

\* C38: duplicate audit entries of re-runs do not change the run statistics:
\* after execute_plan ran any number of times on the same plan, the kept,
\* quarantined and analyzed-clip counts generate_narrative reports equal the
\* number of distinct units with that action in the plan.
C38_NarrativeCountsUnits ==
  ( /\ call.op = "generate_narrative"
    /\ plan.kind = "json"
    /\ executed >= 1
    /\ rewrites = 0 ) =>
      /\ call.result.found
      /\ call.result.kept_count = Cardinality(UnitsWith("keep"))
      /\ call.result.quarantine_count = Cardinality(UnitsWith("quarantine"))
      /\ call.result.total_clips =
           Cardinality({plan.data[i].clip_id : i \in 1..Len(plan.data)})

\* C39: flattening the path separators of a unit id avoids collisions: two
\* distinct unit ids planned into the same destination folder are written to
\* distinct file names, so neither copy overwrites the other.
C39_FlatNamesDistinct ==
  call.op = "execute_plan" =>
    \A i, j \in 1..Len(plan.data) :
      ( /\ plan.data[i].clip_id # plan.data[j].clip_id
        /\ plan.data[i].destination = plan.data[j].destination
        /\ Copied(plan.data[i])
        /\ Copied(plan.data[j]) ) =>
          flat_name(plan.data[i].clip_id) # flat_name(plan.data[j].clip_id)

(***************************************************************************)
(* Run analytics against the decider (SpecDecide)                          *)
(***************************************************************************)
\* the verdict decide_clips gives a unit of the ledger
DeciderVerdict(id) ==
  decide(policy, IF tagsFile.kind = "json" THEN tagsFile.data ELSE Empty,
         id, MetricsOf(id)).decision

\* C37: run analytics agree with the Decision Engine: for every ledger,
\* labels and policy the kept count and the verdict per unit of analyze_run
\* equal the number of units decide_clips keeps and its verdict.
C37_AnalyticsAgreeWithDecider ==
  (call.op = "analyze_run" /\ scores_readable(scoresFile[user_id])) =>
    LET ids == DOMAIN scoresFile[user_id].data
    IN  /\ call.result.overview.kept =
             Cardinality({id \in ids : DeciderVerdict(id) = "keep"})
        /\ \A id \in ids :
             analytics_decision(policy, MetricsOf(id)) = DeciderVerdict(id)

(***************************************************************************)
(* Unit identity and the order of the writes                               *)
(***************************************************************************)
\* C33: a unit has one identity across the run: the motion, voice and face
\* stages write a unit's metrics under the ledger key the orchestrator
\* tracks, so after the three stages the ledger holds one record per unit
\* with motion_score, vad_score and face_score; distinct units never share a
\* key.
C33_OneIdentity ==
  /\ \A k \in DOMAIN _load(WorkerLedger) : k \in DOMAIN _load(OrchStore)
  /\ (runs = 1 /\ errors = 0 /\ stepIdx > 4) =>
       \A c \in DOMAIN _load(OrchStore) :
         /\ c \in DOMAIN _load(WorkerLedger)
         /\ DOMAIN _load(WorkerLedger)[c] = Metrics

\* C35: a scoring worker persists the score before it marks the stage done:
\* in every reachable state, also after a crash inside process_file, a unit
\* with a scoring stage in its completed stages has that stage's metric in
\* the ledger.
C35_ScoreBeforeMark ==
  \A c \in DOMAIN _load(WorkerStore) : \A s \in ScoringStages :
    s \in _load(WorkerStore)[c].completed_steps =>
      /\ c \in DOMAIN _load(WorkerLedger)
      /\ MetricOf(s) \in DOMAIN _load(WorkerLedger)[c]

\* C34: the scraping of the progress lines is advisory only: when the
\* orchestrator's update_chunk_status(u, PROCESSING) call interleaves in any
\* order with a worker's mark_step_done(u2, s) call on tracked units, the
\* completion is never lost: after both calls returned is_step_done(u2, s)
\* is true.
C34_ScrapeKeepsCompletion ==
  scrape.pc = "idle" =>
    \A c \in markSaved : is_step_done(_load(WorkerStore), c, stage)

\* C36: the semantic tagging stage is crash-consistent: at whatever point of
\* its run the tagger stops, every unit that the State Store reports done for
\* the Semantic Tagging stage has its tag in the persisted tags file.
C36_TaggedBeforeMarked ==
  (runs = 1 /\ stepIdx = 6 /\ opc \in {"running", AfterFailure}) =>
    \A c \in DOMAIN _load(WorkerStore) :
      is_step_done(_load(WorkerStore), c, STEPS[6]) =>
        /\ tagsFile.kind = "json"
        /\ c \in DOMAIN tagsFile.data

====
